---- MODULE Spec2Model ----
(***************************************************************************)
(* Model of turm_gpu (src/src/main.rs): a terminal dashboard that shows    *)
(* the GPU/CPU allocation of the nodes of a cluster.                       *)
(*                                                                         *)
(* Strings are sequences of one-character strings, so that split, split_   *)
(* once and parse are computed character by character as the code does.    *)
(* Option<T> is a sequence of length at most one: None is <<>>, Some(x) is *)
(* <<x>>.                                                                  *)
(***************************************************************************)
EXTENDS Integers, Sequences, FiniteSets, TLC

None == <<>>
Some(x) == <<x>>

(***************************************************************************)
(* Bounds of the model.                                                    *)
(***************************************************************************)
\* longest snapshot a fetch returns
MaxNodes == 2
\* tallest terminal that terminal.size() reports
MaxHeight == 7
\* most comma-separated entries of a generated descriptor
MaxEntries == 2
\* most colon-delimited fields of a generated descriptor entry
MaxFields == 3

(***************************************************************************)
(* Library string functions used by extract_gpu_info.                      *)
(***************************************************************************)
RECURSIVE SplitAcc(_, _, _)
SplitAcc(s, sep, cur) ==
    IF s = <<>> THEN <<cur>>
    ELSE IF Head(s) = sep THEN <<cur>> \o SplitAcc(Tail(s), sep, <<>>)
    ELSE SplitAcc(Tail(s), sep, Append(cur, Head(s)))

\* str::split(sep).collect(): the pieces between the occurrences of sep;
\* the empty string gives one empty piece
Split(s, sep) == SplitAcc(s, sep, <<>>)

RECURSIVE Find(_, _, _)
Find(s, c, i) ==
    IF i > Len(s) THEN 0
    ELSE IF s[i] = c THEN i
    ELSE Find(s, c, i + 1)

\* str::split_once(c): Some((before, after)) around the first c, else None
split_once(s, c) ==
    LET i == Find(s, c, 1)
    IN  IF i = 0 THEN None
        ELSE Some(<<SubSeq(s, 1, i - 1), SubSeq(s, i + 1, Len(s))>>)

Digits == {"0", "1", "2", "3", "4", "5", "6", "7", "8", "9"}

\* char::to_digit(10) of a decimal digit
to_digit(c) ==
    CASE c = "0" -> 0 [] c = "1" -> 1 [] c = "2" -> 2 [] c = "3" -> 3
      [] c = "4" -> 4 [] c = "5" -> 5 [] c = "6" -> 6 [] c = "7" -> 7
      [] c = "8" -> 8 [] c = "9" -> 9

RECURSIVE ParseDigits(_, _)
ParseDigits(s, acc) ==
    IF s = <<>> THEN Some(acc)
    ELSE IF Head(s) \notin Digits THEN None
    ELSE ParseDigits(Tail(s), acc * 10 + to_digit(Head(s)))

\* str::parse::<u32>().ok(): empty, a lone sign, a '-' or any non-digit give
\* None; one leading '+' is accepted.  (A numeral above u32::MAX also gives
\* None; the numerals of this model are far shorter than ten digits.)
parse_u32(s) ==
    IF s = <<>> THEN None
    ELSE IF s = <<"+">> \/ s = <<"-">> THEN None
    ELSE IF Head(s) = "+" THEN ParseDigits(Tail(s), 0)
    ELSE ParseDigits(s, 0)

RECURSIVE SumSome(_)
\* Iterator::filter_map(..).sum(): the sum of the Some values of a sequence
\* of options
SumSome(opts) ==
    IF opts = <<>> THEN 0
    ELSE (IF Head(opts) = None THEN 0 ELSE Head(opts)[1]) + SumSome(Tail(opts))

(***************************************************************************)
(* extract_gpu_info and is_node_fully_allocated.                           *)
(***************************************************************************)
\* Option::as_deref().unwrap_or("")
unwrap_or_empty(opt) == IF opt = None THEN <<>> ELSE opt[1]

\* total_gpus_of without the split_once of line 46: the whole third field is
\* parsed
total_gpus_of_whole_field(node) ==
    LET entries == Split(unwrap_or_empty(node.gres), ",")
        count(gres_entry) ==
            LET parts == Split(gres_entry, ":")
            IN  IF Len(parts) >= 3 THEN parse_u32(parts[3]) ELSE None
    IN  SumSome([i \in 1..Len(entries) |-> count(entries[i])])

\* lines 37-55: the count of the capacity descriptor node.gres
total_gpus_of(node) ==
    LET entries == Split(unwrap_or_empty(node.gres), ",")
        count(gres_entry) ==
            LET parts == Split(gres_entry, ":")
            IN  IF Len(parts) >= 3
                THEN LET gpu_info == parts[3]
                         once == split_once(gpu_info, "(")
                     IN  IF once # None THEN parse_u32(once[1][1])
                         ELSE parse_u32(gpu_info)
                ELSE None
    IN  SumSome([i \in 1..Len(entries) |-> count(entries[i])])

\* lines 57-75: the count of the in-use descriptor node.gres_used
allocated_gpus_of(node) ==
    LET entries == Split(unwrap_or_empty(node.gres_used), ",")
        count(gres_entry) ==
            LET parts == Split(gres_entry, ":")
            IN  IF Len(parts) >= 3
                THEN LET gpu_info == parts[3]
                         once == split_once(gpu_info, "(")
                     IN  IF once # None THEN parse_u32(once[1][1])
                         ELSE parse_u32(gpu_info)
                ELSE None
    IN  SumSome([i \in 1..Len(entries) |-> count(entries[i])])

(***************************************************************************)
(* The nodes a fetch can return.                                           *)
(***************************************************************************)
Str_g_a == <<"g", ":", "a", ":">>

\* free GPUs and free CPUs, two partitions
NodeFree ==
    [name |-> "free", gres |-> Some(Str_g_a \o <<"2">>),
     gres_used |-> Some(Str_g_a \o <<"1", "(", "0", ")">>),
     partitions |-> << <<"a">>, <<"b">> >>, cpus |-> 4, alloc_cpus |-> 2]

\* more GPUs in use than the capacity descriptor counts
NodeGpuOver ==
    [name |-> "gpuover", gres |-> Some(Str_g_a \o <<"1">>),
     gres_used |-> Some(Str_g_a \o <<"2", "(", "0", "-", "1", ")">>),
     partitions |-> << <<"a", "b">> >>, cpus |-> 4, alloc_cpus |-> 4]

\* no GPU descriptor, more CPUs allocated than the capacity, no partition
NodeCpuOver ==
    [name |-> "cpuover", gres |-> None, gres_used |-> None,
     partitions |-> <<>>, cpus |-> 2, alloc_cpus |-> 3]

\* every GPU allocated, free CPUs, the same partition listed twice
NodeGpuFull ==
    [name |-> "gpufull", gres |-> Some(Str_g_a \o <<"2">>),
     gres_used |-> Some(Str_g_a \o <<"2">>),
     partitions |-> << <<"b">>, <<"b">> >>, cpus |-> 4, alloc_cpus |-> 0]

NodePool == {NodeFree, NodeGpuFull, NodeGpuOver, NodeCpuOver}

\* lines 36-78: the pair (allocated_gpus, total_gpus), in the order the code
\* returns it, by parsing the two descriptors
parse_descriptors(node) == <<allocated_gpus_of(node), total_gpus_of(node)>>

\* parse_descriptors of the nodes of the pool, parsed once: a node has the
\* same descriptors in every state it occurs in
pool_gpu_info == [node \in NodePool |-> parse_descriptors(node)]

\* lines 36-78: extract_gpu_info(node); for a node of the pool the parse is
\* looked up instead of repeated
extract_gpu_info(node) ==
    IF node \in NodePool THEN pool_gpu_info[node] ELSE parse_descriptors(node)

\* is_node_fully_allocated without the gpu-only branch of lines 84-85
is_node_fully_allocated_cpu_always(node, gpu_only) ==
    LET info == extract_gpu_info(node)
    IN  /\ (info[2] = 0 \/ info[1] = info[2])
        /\ node.alloc_cpus = node.cpus

\* lines 80-90
is_node_fully_allocated(node, gpu_only) ==
    LET info == extract_gpu_info(node)
        allocated_gpus == info[1]
        total_gpus == info[2]
        is_gpus_fully_allocated == total_gpus = 0 \/ allocated_gpus = total_gpus
    IN  IF gpu_only /\ total_gpus > 0
        THEN is_gpus_fully_allocated
        ELSE LET is_cpus_fully_allocated == node.alloc_cpus = node.cpus
             IN  is_gpus_fully_allocated /\ is_cpus_fully_allocated

(***************************************************************************)
(* u32 arithmetic.  A count read from a descriptor or from the snapshot is *)
(* a small natural number; the result of a u32 subtraction, which can wrap *)
(* to a value near 2^32, is kept as its two 16-bit halves.                 *)
(***************************************************************************)
Half == 2 ^ 16

\* the u32 with value n, for 0 <= n < 2^31
U32(n) == [hi |-> n \div Half, lo |-> n % Half]

\* u32::wrapping_sub: a - b modulo 2^32, what `a - b` computes in a build
\* without overflow checks
wrapping_sub(a, b) ==
    IF a >= b THEN U32(a - b)
    ELSE LET d == b - a - 1
         IN  [hi |-> (Half - 1) - (d \div Half), lo |-> (Half - 1) - (d % Half)]

\* `a - b` on u32 in a build with overflow checks panics exactly here
sub_overflows(a, b) == a < b

\* x > 0 for a u32 x
u32_positive(x) == x.hi > 0 \/ x.lo > 0

\* usize::saturating_sub
saturating_sub(a, b) == IF a >= b THEN a - b ELSE 0

min(a, b) == IF a <= b THEN a ELSE b

(***************************************************************************)
(* The view builder: lines 129-175 of main.                                *)
(***************************************************************************)
\* lines 132-145: the filter closure, when it does not panic
filter_keep(node, gpu_only) ==
    LET info == extract_gpu_info(node)
        allocated_gpus == info[1]
        total_gpus == info[2]
    IN  IF gpu_only
        THEN IF total_gpus > 0
             THEN u32_positive(wrapping_sub(total_gpus, allocated_gpus))
             ELSE node.alloc_cpus < node.cpus
        ELSE u32_positive(wrapping_sub(total_gpus, allocated_gpus))
                \/ node.alloc_cpus < node.cpus

\* lines 137 and 143: the closure evaluates total_gpus - allocated_gpus on
\* this node and the subtraction overflows
filter_overflows(node, gpu_only) ==
    LET info == extract_gpu_info(node)
        allocated_gpus == info[1]
        total_gpus == info[2]
    IN  /\ (gpu_only => total_gpus > 0)
        /\ sub_overflows(total_gpus, allocated_gpus)

\* lines 129-149
filtered_nodes_of(ns, hide, gpu_only) ==
    IF hide
    THEN LET keep(node) == filter_keep(node, gpu_only) IN SelectSeq(ns, keep)
    ELSE ns

\* the filter of lines 130-146 runs and panics on some node
filter_panics(ns, hide, gpu_only) ==
    hide /\ \E i \in 1..Len(ns) : filter_overflows(ns[i], gpu_only)

\* the byte of a character of a partition label
byte_of(c) == CASE c = "a" -> 97 [] c = "b" -> 98 [] c = "c" -> 99

RECURSIVE str_less(_, _)
\* String::cmp(a, b) = Less: lexicographic order of the bytes
str_less(a, b) ==
    IF b = <<>> THEN FALSE
    ELSE IF a = <<>> THEN TRUE
    ELSE IF byte_of(Head(a)) < byte_of(Head(b)) THEN TRUE
    ELSE IF byte_of(Head(a)) > byte_of(Head(b)) THEN FALSE
    ELSE str_less(Tail(a), Tail(b))

\* map_push that leaves out a node the bucket already holds
map_push_once(map, p, node) ==
    IF p \in DOMAIN map
    THEN IF \E i \in 1..Len(map[p]) : map[p][i] = node
         THEN map
         ELSE [map EXCEPT ![p] = Append(@, node)]
    ELSE [q \in (DOMAIN map) \cup {p} |-> IF q = p THEN <<node>> ELSE map[q]]

\* lines 155-158: partition_map.entry(p).or_insert_with(Vec::new).push(node)
map_push(map, p, node) ==
    IF p \in DOMAIN map
    THEN [map EXCEPT ![p] = Append(@, node)]
    ELSE [q \in (DOMAIN map) \cup {p} |-> IF q = p THEN <<node>> ELSE map[q]]

RECURSIVE push_partitions(_, _, _)
\* lines 154-159: the inner loop over node.partitions
push_partitions(map, node, parts) ==
    IF parts = <<>> THEN map
    ELSE push_partitions(map_push(map, Head(parts), node), node, Tail(parts))

RECURSIVE partition_map_of(_, _)
\* lines 152-160: the outer loop over filtered_nodes
partition_map_of(map, fs) ==
    IF fs = <<>> THEN map
    ELSE partition_map_of(push_partitions(map, Head(fs), Head(fs).partitions), Tail(fs))

\* line 161: partition_map.into_iter().collect(): the (label, members)
\* pairs of the map, each once, in an order the hasher decides
into_iter(partition_map) ==
    LET keys == DOMAIN partition_map
        n == Cardinality(keys)
    IN  {[i \in 1..n |-> <<order[i], partition_map[order[i]]>>] :
            order \in {f \in [1..n -> keys] :
                          \A i, j \in 1..n : f[i] = f[j] => i = j}}

RECURSIVE insert_sorted(_, _)
\* the place sort_by gives x in a sorted list: before the first pair whose
\* label is greater (sort_by is stable)
insert_sorted(sorted, x) ==
    IF sorted = <<>> THEN <<x>>
    ELSE IF str_less(x[1], Head(sorted)[1]) THEN <<x>> \o sorted
    ELSE <<Head(sorted)>> \o insert_sorted(Tail(sorted), x)

\* sort_by without the sort
sort_by_unsorted(partition_list) == partition_list

RECURSIVE sort_by(_)
\* line 162: partition_list.sort_by(|a, b| a.0.cmp(&b.0))
sort_by(partition_list) ==
    IF partition_list = <<>> THEN <<>>
    ELSE insert_sorted(sort_by(SubSeq(partition_list, 1, Len(partition_list) - 1)),
                       partition_list[Len(partition_list)])

\* lines 152-162: the partition lists the iteration orders of the map give
partition_lists_of(fs) ==
    {sort_by(collected) : collected \in into_iter(partition_map_of(<<>>, fs))}

\* lines 151-166: Some(partition_list) or None
grouped_nodes_of(fs, group) ==
    IF group
    THEN LET partition_map == partition_map_of(<<>>, fs)
         IN  Some(sort_by(CHOOSE collected \in into_iter(partition_map) : TRUE))
    ELSE None

RECURSIVE sum_group_rows(_)
sum_group_rows(list) ==
    IF list = <<>> THEN 0
    ELSE (Len(Head(list)[2]) + 1) + sum_group_rows(Tail(list))

\* lines 168-172
total_rows_of(fs, grouped) ==
    IF grouped # None THEN sum_group_rows(grouped[1]) ELSE Len(fs)

\* clamped_scroll without the clamp of line 175
clamped_scroll_unclamped(scroll_, total_rows_, rows_per_page_) == scroll_

\* lines 174-175: the offset clamped to max_scroll
clamped_scroll(scroll_, total_rows_, rows_per_page_) ==
    LET max_scroll_ == saturating_sub(total_rows_, rows_per_page_)
    IN  min(scroll_, max_scroll_)

(***************************************************************************)
(* The rows of the table: lines 194-305 of the draw closure.               *)
(***************************************************************************)
RECURSIVE join(_, _)
\* [String]::join(sep)
join(strs, sep) ==
    IF strs = <<>> THEN <<>>
    ELSE IF Len(strs) = 1 THEN Head(strs)
    ELSE Head(strs) \o sep \o join(Tail(strs), sep)

\* lines 198-204: the header row of a partition
header_row(partition_name) == [kind |-> "header", partition |-> partition_name]

\* lines 207-244 and 249-286: the row of a node, in a build where the two
\* subtractions wrap
node_row(node, gpu_only, partition_cell) ==
    LET info == extract_gpu_info(node)
        allocated_gpus == info[1]
        total_gpus == info[2]
        free_gpus == wrapping_sub(total_gpus, allocated_gpus)
        free_cpus == wrapping_sub(node.cpus, node.alloc_cpus)
    IN  [kind |-> "node",
         partition |-> partition_cell,
         name |-> node.name,
         name_red |-> is_node_fully_allocated(node, gpu_only),
         free_gpus |-> free_gpus,
         free_gpus_green |-> u32_positive(free_gpus),
         allocated_gpus |-> allocated_gpus,
         total_gpus |-> total_gpus,
         alloc_cpus |-> node.alloc_cpus,
         cpus |-> node.cpus,
         free_cpus |-> free_cpus,
         free_cpus_green |-> u32_positive(free_cpus)]

\* lines 208-209 and 250-251: one of the two subtractions overflows
row_overflows(node) ==
    LET info == extract_gpu_info(node)
    IN  sub_overflows(info[2], info[1]) \/ sub_overflows(node.cpus, node.alloc_cpus)

RECURSIVE grouped_rows(_, _)
\* lines 197-246
grouped_rows(list, gpu_only) ==
    IF list = <<>> THEN <<>>
    ELSE LET partition_name == Head(list)[1]
             nodes_in_partition == Head(list)[2]
         IN  <<header_row(partition_name)>>
             \o [i \in 1..Len(nodes_in_partition) |->
                    node_row(nodes_in_partition[i], gpu_only, <<>>)]
             \o grouped_rows(Tail(list), gpu_only)

\* lines 194-288: table_rows
table_rows_of(fs, grouped, gpu_only) ==
    IF grouped # None
    THEN grouped_rows(grouped[1], gpu_only)
    ELSE [i \in 1..Len(fs) |->
             node_row(fs[i], gpu_only, join(fs[i].partitions, <<",", " ">>))]

\* a row of the table is built from a node whose subtraction overflows (every
\* row is built, displayed or not); a bucket member is a filtered node
draw_panics(fs, grouped) ==
    IF grouped # None
    THEN \E g \in 1..Len(grouped[1]) :
            \E i \in 1..Len(grouped[1][g][2]) : row_overflows(grouped[1][g][2][i])
    ELSE \E i \in 1..Len(fs) : row_overflows(fs[i])

\* lines 290-305: enumerate().skip(scroll).take(rows_per_page), then the
\* background of each displayed row; index counts from 0
displayed_rows_of(table_rows, scroll_, rows_per_page_) ==
    LET first == scroll_ + 1
        last == min(Len(table_rows), scroll_ + rows_per_page_)
    IN  [k \in 1..saturating_sub(last + 1, first) |->
            LET index == (first + k - 1) - 1
            IN  [index |-> index,
                 row |-> table_rows[first + k - 1],
                 bg |-> IF (scroll_ + index) % 2 = 0 THEN "Reset" ELSE "Rgb40"]]

(***************************************************************************)
(* The snapshots a fetch can return.                                       *)
(***************************************************************************)
\* what load_nodes_from_command can return on success
Snapshots == UNION {[1..n -> NodePool] : n \in 0..MaxNodes}

\* the heights terminal.size() can report
Heights == 0..MaxHeight

(***************************************************************************)
(* State.                                                                  *)
(***************************************************************************)
VARIABLES
    pc,                  \* position of main
    nodes,               \* the snapshot
    scroll,
    elapsed,             \* last_refresh.elapsed(), in whole seconds
    gpu_only_mode,
    hide_no_free_gpus,
    group_by_partitions,
    rows_per_page,       \* of the current iteration
    frame,               \* the rows this iteration's draw handed to the table
    raw_mode,            \* the terminal is in raw mode
    alt_screen,          \* the terminal shows the alternate screen
    exit_status,         \* "running", then "ok", "err" or "panic"; pc then
                         \* stays at the statement that ended main
    event,               \* at "refresh": the event the match of lines 330-369
                         \* just handled; at "size": "fetched" when the
                         \* iteration before ended with a periodic fetch;
                         \* elsewhere "none"
    before,              \* at "refresh": view_state and the snapshot as
                         \* that match found them; elsewhere <<>>
    fn_in,               \* argument of a function applied on its own
    fn_out               \* its result

vars == <<pc, nodes, scroll, elapsed, gpu_only_mode,
          hide_no_free_gpus, group_by_partitions, rows_per_page, frame,
          raw_mode, alt_screen, exit_status, event, before, fn_in, fn_out>>

view_state == <<scroll, gpu_only_mode, hide_no_free_gpus, group_by_partitions>>
terminal_state == <<raw_mode, alt_screen>>
dispatched == <<event, before>>
fn_state == <<fn_in, fn_out>>

\* line 113
refresh_interval == 5

\* the derived structures of the current iteration (lines 129-174)
filtered_nodes == filtered_nodes_of(nodes, hide_no_free_gpus, gpu_only_mode)
grouped_nodes == grouped_nodes_of(filtered_nodes, group_by_partitions)
total_rows == total_rows_of(filtered_nodes, grouped_nodes)
max_scroll == saturating_sub(total_rows, rows_per_page)
table_rows == table_rows_of(filtered_nodes, grouped_nodes, gpu_only_mode)

\* lines 111-123, before load_nodes_from_command returns
Init ==
    /\ pc = "load"
    /\ nodes = <<>>
    /\ scroll = 0
    /\ elapsed = 0
    /\ gpu_only_mode = TRUE
    /\ hide_no_free_gpus = FALSE
    /\ group_by_partitions = FALSE
    /\ rows_per_page = 0
    /\ frame = <<>>
    /\ raw_mode = FALSE
    /\ alt_screen = FALSE
    /\ exit_status = "running"
    /\ event = "none"
    /\ before = <<>>
    /\ fn_in = <<>>
    /\ fn_out = <<>>

\* `?` on an Err: main returns the error, nothing else runs
ReturnErr ==
    /\ exit_status' = "err"
    /\ UNCHANGED pc

\* a panic unwinds main
Panic ==
    /\ exit_status' = "panic"
    /\ UNCHANGED pc

(***************************************************************************)
(* Start-up: lines 111-121.                                                *)
(***************************************************************************)
\* LoadNodes moved after line 117: raw mode is on when the fetch fails
LoadNodes_in_raw_mode ==
    /\ pc = "load" /\ exit_status = "running"
    /\ \/ \E s \in Snapshots : /\ nodes' = s
                               /\ pc' = "raw"
                               /\ UNCHANGED <<exit_status, raw_mode>>
       \/ ReturnErr /\ raw_mode' = TRUE /\ UNCHANGED nodes
    /\ UNCHANGED <<view_state, elapsed, rows_per_page, frame,
                   alt_screen, dispatched, fn_state>>

\* line 111
LoadNodes ==
    /\ pc = "load" /\ exit_status = "running"
    /\ \/ \E s \in Snapshots : /\ nodes' = s
                               /\ pc' = "raw"
                               /\ UNCHANGED exit_status
       \/ ReturnErr /\ UNCHANGED nodes
    /\ UNCHANGED <<view_state, elapsed, rows_per_page, frame,
                   terminal_state, dispatched, fn_state>>

\* line 117
EnableRawMode ==
    /\ pc = "raw" /\ exit_status = "running"
    /\ \/ raw_mode' = TRUE /\ pc' = "alt" /\ UNCHANGED exit_status
       \/ ReturnErr /\ UNCHANGED raw_mode
    /\ UNCHANGED <<nodes, view_state, elapsed, rows_per_page,
                   frame, alt_screen, dispatched, fn_state>>

\* line 119
EnterAlternateScreen ==
    /\ pc = "alt" /\ exit_status = "running"
    /\ \/ alt_screen' = TRUE /\ pc' = "terminal" /\ UNCHANGED exit_status
       \/ ReturnErr /\ UNCHANGED alt_screen
    /\ UNCHANGED <<nodes, view_state, elapsed, rows_per_page,
                   frame, raw_mode, dispatched, fn_state>>

\* line 121
TerminalNew ==
    /\ pc = "terminal" /\ exit_status = "running"
    /\ \/ pc' = "size" /\ UNCHANGED exit_status
       \/ ReturnErr
    /\ UNCHANGED <<nodes, view_state, elapsed, rows_per_page,
                   frame, terminal_state, dispatched, fn_state>>

(***************************************************************************)
(* One iteration of the loop: lines 126-374.                               *)
(***************************************************************************)
\* lines 126-175: the viewport size, the view and the clamp of the offset.
\* Where a subtraction of the filter overflows, the build decides: with
\* overflow checks it panics, without it wraps; both outcomes are steps
BuildView ==
    /\ pc = "size" /\ exit_status = "running"
    /\ \/ ReturnErr /\ UNCHANGED <<rows_per_page, scroll>>
       \/ \E height \in Heights :
            /\ rows_per_page' = saturating_sub(height, 5)
            /\ \/ /\ filter_panics(nodes, hide_no_free_gpus, gpu_only_mode)
                  /\ Panic
                  /\ UNCHANGED scroll
               \/ /\ scroll' = clamped_scroll(scroll, total_rows, rows_per_page')
                  /\ pc' = "draw"
                  /\ UNCHANGED exit_status
    /\ IF exit_status' = "running"
       THEN event' = "none" /\ UNCHANGED before
       ELSE UNCHANGED dispatched
    /\ UNCHANGED <<nodes, elapsed, gpu_only_mode,
                   hide_no_free_gpus, group_by_partitions, frame,
                   terminal_state, fn_state>>

\* lines 177-328; an overflowing subtraction of a row panics or wraps, as
\* the build decides
Draw ==
    /\ pc = "draw" /\ exit_status = "running"
    /\ \/ ReturnErr /\ UNCHANGED frame
       \/ /\ draw_panics(filtered_nodes, grouped_nodes)
          /\ Panic
          /\ UNCHANGED frame
       \/ /\ frame' = displayed_rows_of(table_rows, scroll, rows_per_page)
          /\ pc' = "poll"
          /\ UNCHANGED exit_status
    /\ UNCHANGED <<nodes, view_state, elapsed, rows_per_page,
                   terminal_state, dispatched, fn_state>>

(***************************************************************************)
(* Input: lines 330-369.  The wait of event::poll lets time pass; the      *)
(* clock is read in whole seconds, so one wait adds 0 or 1 to it.          *)
(***************************************************************************)
Events == {"timeout", "q", "f", "s", "c", "up", "down", "pageup", "pagedown",
           "home", "end", "other"}

\* what the outcomes of the poll that return no Err have in common; ev is
\* the match arm taken ("timeout" when poll returned false)
Polled(ev) ==
    /\ pc = "poll" /\ exit_status = "running"
    /\ \E dt \in 0..1 : elapsed' = elapsed + dt
    /\ frame' = <<>>
    /\ event' = ev
    /\ before' = <<scroll, gpu_only_mode, hide_no_free_gpus, group_by_partitions,
                   nodes>>
    /\ UNCHANGED <<nodes, rows_per_page, terminal_state,
                   exit_status, fn_state>>

\* line 330 or line 331: event::poll or event::read returns an Err
InputFails ==
    /\ pc = "poll" /\ exit_status = "running"
    /\ ReturnErr
    /\ frame' = <<>>
    /\ UNCHANGED <<nodes, view_state, elapsed, rows_per_page,
                   terminal_state, dispatched, fn_state>>

\* line 330: no event within the 100 ms
PollTimeout ==
    /\ Polled("timeout")
    /\ pc' = "refresh"
    /\ UNCHANGED view_state

\* KeyQuit without the break: the iteration goes on to line 371
KeyQuit_continues ==
    /\ Polled("q")
    /\ pc' = "refresh"
    /\ UNCHANGED view_state

\* line 333
KeyQuit ==
    /\ Polled("q")
    /\ pc' = "disable_raw"
    /\ UNCHANGED view_state

\* lines 334-337
KeyToggleHide ==
    /\ Polled("f")
    /\ hide_no_free_gpus' = ~hide_no_free_gpus
    /\ scroll' = 0
    /\ pc' = "refresh"
    /\ UNCHANGED <<gpu_only_mode, group_by_partitions>>

\* KeyToggleGroup without the reset of line 340
KeyToggleGroup_keeps_scroll ==
    /\ Polled("s")
    /\ group_by_partitions' = ~group_by_partitions
    /\ pc' = "refresh"
    /\ UNCHANGED <<scroll, gpu_only_mode, hide_no_free_gpus>>

\* lines 338-341
KeyToggleGroup ==
    /\ Polled("s")
    /\ group_by_partitions' = ~group_by_partitions
    /\ scroll' = 0
    /\ pc' = "refresh"
    /\ UNCHANGED <<gpu_only_mode, hide_no_free_gpus>>

\* KeyToggleGpuOnly with the reset of the offset the other two toggles do
KeyToggleGpuOnly_resets_scroll ==
    /\ Polled("c")
    /\ gpu_only_mode' = ~gpu_only_mode
    /\ scroll' = 0
    /\ pc' = "refresh"
    /\ UNCHANGED <<hide_no_free_gpus, group_by_partitions>>

\* lines 342-344
KeyToggleGpuOnly ==
    /\ Polled("c")
    /\ gpu_only_mode' = ~gpu_only_mode
    /\ pc' = "refresh"
    /\ UNCHANGED <<scroll, hide_no_free_gpus, group_by_partitions>>

\* lines 345-347
KeyUp ==
    /\ Polled("up")
    /\ scroll' = saturating_sub(scroll, 1)
    /\ pc' = "refresh"
    /\ UNCHANGED <<gpu_only_mode, hide_no_free_gpus, group_by_partitions>>

\* lines 348-351
KeyDown ==
    /\ Polled("down")
    /\ LET max_scroll_ == saturating_sub(Len(nodes), rows_per_page)
       IN  scroll' = min(scroll + 1, max_scroll_)
    /\ pc' = "refresh"
    /\ UNCHANGED <<gpu_only_mode, hide_no_free_gpus, group_by_partitions>>

\* KeyPageUp that goes up one row, as KeyUp does
KeyPageUp_one_row ==
    /\ Polled("pageup")
    /\ scroll' = saturating_sub(scroll, 1)
    /\ pc' = "refresh"
    /\ UNCHANGED <<gpu_only_mode, hide_no_free_gpus, group_by_partitions>>

\* lines 352-354
KeyPageUp ==
    /\ Polled("pageup")
    /\ scroll' = saturating_sub(scroll, rows_per_page)
    /\ pc' = "refresh"
    /\ UNCHANGED <<gpu_only_mode, hide_no_free_gpus, group_by_partitions>>

\* lines 355-358
KeyPageDown ==
    /\ Polled("pagedown")
    /\ LET max_scroll_ == saturating_sub(Len(nodes), rows_per_page)
       IN  scroll' = min(scroll + rows_per_page, max_scroll_)
    /\ pc' = "refresh"
    /\ UNCHANGED <<gpu_only_mode, hide_no_free_gpus, group_by_partitions>>

\* lines 359-361
KeyHome ==
    /\ Polled("home")
    /\ scroll' = 0
    /\ pc' = "refresh"
    /\ UNCHANGED <<gpu_only_mode, hide_no_free_gpus, group_by_partitions>>

\* lines 362-364
KeyEnd ==
    /\ Polled("end")
    /\ scroll' = saturating_sub(Len(nodes), rows_per_page)
    /\ pc' = "refresh"
    /\ UNCHANGED <<gpu_only_mode, hide_no_free_gpus, group_by_partitions>>

\* lines 365 and 367: any other key, and any event that is not a key
OtherEvent ==
    /\ Polled("other")
    /\ pc' = "refresh"
    /\ UNCHANGED view_state

(***************************************************************************)
(* Periodic refresh: lines 371-374.                                        *)
(***************************************************************************)
\* Refresh with `>` for the `>=` of line 371
Refresh_after_interval ==
    /\ pc = "refresh" /\ exit_status = "running"
    /\ IF elapsed > refresh_interval
       THEN \/ \E s \in Snapshots : /\ nodes' = s
                                    /\ elapsed' = 0
                                    /\ pc' = "size"
                                    /\ event' = "fetched" /\ before' = <<>>
                                    /\ UNCHANGED exit_status
            \/ ReturnErr /\ UNCHANGED <<nodes, elapsed, dispatched>>
       ELSE /\ pc' = "size"
            /\ event' = "none" /\ before' = <<>>
            /\ UNCHANGED <<nodes, elapsed, exit_status>>
    /\ UNCHANGED <<view_state, rows_per_page, frame,
                   terminal_state, fn_state>>

\* lines 371-374: the fetch when the interval has elapsed; on success the
\* snapshot is replaced and last_refresh renewed
Refresh ==
    /\ pc = "refresh" /\ exit_status = "running"
    /\ IF elapsed >= refresh_interval
       THEN \/ \E s \in Snapshots : /\ nodes' = s
                                    /\ elapsed' = 0
                                    /\ pc' = "size"
                                    /\ event' = "fetched" /\ before' = <<>>
                                    /\ UNCHANGED exit_status
            \/ ReturnErr /\ UNCHANGED <<nodes, elapsed, dispatched>>
       ELSE /\ pc' = "size"
            /\ event' = "none" /\ before' = <<>>
            /\ UNCHANGED <<nodes, elapsed, exit_status>>
    /\ UNCHANGED <<view_state, rows_per_page, frame,
                   terminal_state, fn_state>>

(***************************************************************************)
(* After the loop: lines 377-381.                                          *)
(***************************************************************************)
\* line 377
DisableRawMode ==
    /\ pc = "disable_raw" /\ exit_status = "running"
    /\ \/ raw_mode' = FALSE /\ pc' = "leave_alt" /\ UNCHANGED exit_status
       \/ ReturnErr /\ UNCHANGED raw_mode
    /\ UNCHANGED <<nodes, view_state, elapsed, rows_per_page,
                   frame, alt_screen, dispatched, fn_state>>

\* line 378
LeaveAlternateScreen ==
    /\ pc = "leave_alt" /\ exit_status = "running"
    /\ \/ alt_screen' = FALSE /\ pc' = "show_cursor" /\ UNCHANGED exit_status
       \/ ReturnErr /\ UNCHANGED alt_screen
    /\ UNCHANGED <<nodes, view_state, elapsed, rows_per_page,
                   frame, raw_mode, dispatched, fn_state>>

\* lines 379-381
ShowCursor ==
    /\ pc = "show_cursor" /\ exit_status = "running"
    /\ \/ pc' = "done" /\ exit_status' = "ok"
       \/ ReturnErr
    /\ UNCHANGED <<nodes, view_state, elapsed, rows_per_page,
                   frame, terminal_state, dispatched, fn_state>>

Next ==
    \/ LoadNodes
    \/ EnableRawMode
    \/ EnterAlternateScreen
    \/ TerminalNew
    \/ BuildView
    \/ Draw
    \/ InputFails
    \/ PollTimeout
    \/ KeyQuit
    \/ KeyToggleHide
    \/ KeyToggleGroup
    \/ KeyToggleGpuOnly
    \/ KeyUp
    \/ KeyDown
    \/ KeyPageUp
    \/ KeyPageDown
    \/ KeyHome
    \/ KeyEnd
    \/ OtherEvent
    \/ Refresh
    \/ DisableRawMode
    \/ LeaveAlternateScreen
    \/ ShowCursor

Spec == Init /\ [][Next]_vars

TypeOK ==
    /\ pc \in {"load", "raw", "alt", "terminal", "size", "draw", "poll",
               "refresh", "disable_raw", "leave_alt", "show_cursor", "done"}
    /\ nodes \in Snapshots
    /\ scroll \in Nat
    /\ elapsed \in 0..refresh_interval
    /\ rows_per_page \in 0..saturating_sub(MaxHeight, 5)
    /\ exit_status \in {"running", "ok", "err", "panic"}
    /\ event \in Events \cup {"none", "fetched"}
    /\ (pc = "done") = (exit_status = "ok")

(***************************************************************************)
(* The loop under fairness.  What the periodic refresh does depends neither *)
(* on what a snapshot holds nor on the viewport, so this specification runs *)
(* the same actions with fetches that return at most one node and          *)
(* viewports of at most one row.  Its fairness: main keeps executing (a     *)
(* step that can be taken is taken), and the clock advances, every wait of  *)
(* event::poll and every frame taking time.                                 *)
(***************************************************************************)
RefreshSnapshots == {<<>>, <<NodeFree>>, <<NodeGpuOver>>}

RefreshRows == 0..1

\* the action A with a fetch and a viewport of the above
Slice(A) ==
    /\ A
    /\ nodes' \in RefreshSnapshots
    /\ rows_per_page' \in RefreshRows

\* lines 330-369: the poll of one iteration, whatever it returns
PollStep ==
    \/ PollTimeout
    \/ KeyQuit
    \/ KeyToggleHide
    \/ KeyToggleGroup
    \/ KeyToggleGpuOnly
    \/ KeyUp
    \/ KeyDown
    \/ KeyPageUp
    \/ KeyPageDown
    \/ KeyHome
    \/ KeyEnd
    \/ OtherEvent

\* a poll during which the clock passes a second
Tick == Slice(PollStep) /\ elapsed' = elapsed + 1

RefreshNext ==
    \/ Slice(LoadNodes)
    \/ Slice(EnableRawMode)
    \/ Slice(EnterAlternateScreen)
    \/ Slice(TerminalNew)
    \/ Slice(BuildView)
    \/ Slice(Draw)
    \/ Slice(InputFails)
    \/ Slice(PollStep)
    \/ Slice(Refresh)
    \/ Slice(DisableRawMode)
    \/ Slice(LeaveAlternateScreen)
    \/ Slice(ShowCursor)

SpecRefresh ==
    /\ Init
    /\ [][RefreshNext]_vars
    /\ WF_vars(RefreshNext)
    /\ SF_vars(Tick)

(***************************************************************************)
(* The pure functions applied on their own.  An input is a node given by   *)
(* the structure of its two descriptors: a descriptor is None or a         *)
(* sequence of entries, an entry a sequence of fields, and a field a text  *)
(* without ',' and ':' together with the count that text stands for when   *)
(* it is the third field of an entry (None when it is not a count).  The   *)
(* functions are applied to the node whose descriptors are the texts       *)
(* joined with ':' and ','.                                                *)
(***************************************************************************)
\* texts for the first field
TypeFields == { [text |-> <<"g", "p", "u">>, count |-> None] }

\* texts for the second field
ModelFields ==
    { [text |-> <<"a", "1", "0", "0">>, count |-> None],
      [text |-> <<"7">>, count |-> Some(7)] }

\* texts for a field after the third
ExtraFields == { [text |-> <<"7">>, count |-> Some(7)] }

\* texts for the third field
CountFields ==
    { [text |-> <<"4">>, count |-> Some(4)],
      [text |-> <<"4", "(", "0", "-", "3", ")">>, count |-> Some(4)],
      [text |-> <<"1", "2", "(">>, count |-> Some(12)],
      [text |-> <<"+", "2">>, count |-> Some(2)],
      [text |-> <<>>, count |-> None],
      [text |-> <<"(", "4", ")">>, count |-> None],
      [text |-> <<"4", "x", "(", "1", ")">>, count |-> None],
      [text |-> <<"-", "1">>, count |-> None] }

FieldsAt(position) ==
    CASE position = 1 -> TypeFields
      [] position = 2 -> ModelFields
      [] position = 3 -> CountFields
      [] OTHER -> ExtraFields

\* the entries of n fields
EntriesOf(n) ==
    {e \in [1..n -> TypeFields \cup ModelFields \cup CountFields \cup ExtraFields] :
        \A i \in 1..n : e[i] \in FieldsAt(i)}

GenEntries == UNION {EntriesOf(n) : n \in 1..MaxFields}

\* a descriptor of one well-formed entry with count n, for n = 4 or 8
CountDescriptor(n) ==
    IF n = 4
    THEN Some(<< << [text |-> <<"g", "p", "u">>, count |-> None],
                    [text |-> <<"a", "1", "0", "0">>, count |-> None],
                    [text |-> <<"4">>, count |-> Some(4)] >> >>)
    ELSE Some(<< << [text |-> <<"g", "p", "u">>, count |-> None],
                    [text |-> <<"a", "1", "0", "0">>, count |-> None],
                    [text |-> <<"8", "(", "0", "-", "7", ")">>, count |-> Some(8)] >> >>)

\* descriptors for the aggregator: counts 0, 4 and 8
PlainDescriptors == {None, CountDescriptor(4), CountDescriptor(8)}

CpuCounts == {0, 8, 16}

\* inputs for the aggregator: every combination of the plain descriptors,
\* the CPU counts and the mode
PlainInputs ==
    [gres : PlainDescriptors, gres_used : PlainDescriptors,
     cpus : CpuCounts, alloc_cpus : CpuCounts, gpu_only : BOOLEAN]

\* an input for the parser: the generated descriptor d of 1..MaxEntries
\* entries as one descriptor of the node, a plain descriptor as the other
ParserInput(d, plain, d_is_capacity) ==
    [gres |-> IF d_is_capacity THEN Some(d) ELSE plain,
     gres_used |-> IF d_is_capacity THEN plain ELSE Some(d),
     cpus |-> 16, alloc_cpus |-> 8, gpu_only |-> TRUE]

\* the text of a descriptor: its fields joined with ':', its entries with ','
DescriptorText(d) ==
    IF d = None THEN None
    ELSE LET entry_text(e) == join([i \in 1..Len(e) |-> e[i].text], <<":">>)
         IN  Some(join([i \in 1..Len(d[1]) |-> entry_text(d[1][i])], <<",">>))

\* the Node an input stands for
FnNode(in) ==
    [name |-> "n", gres |-> DescriptorText(in.gres),
     gres_used |-> DescriptorText(in.gres_used),
     partitions |-> <<>>, cpus |-> in.cpus, alloc_cpus |-> in.alloc_cpus]

FnInit ==
    /\ pc = "fn"
    /\ nodes = <<>>
    /\ scroll = 0
    /\ elapsed = 0
    /\ gpu_only_mode = TRUE
    /\ hide_no_free_gpus = FALSE
    /\ group_by_partitions = FALSE
    /\ rows_per_page = 0
    /\ frame = <<>>
    /\ raw_mode = FALSE
    /\ alt_screen = FALSE
    /\ exit_status = "running"
    /\ event = "none"
    /\ before = <<>>
    /\ \/ fn_in \in PlainInputs
       \/ \E n \in 1..MaxEntries : \E d \in [1..n -> GenEntries] :
            \E plain \in {None, CountDescriptor(4)} : \E d_is_capacity \in BOOLEAN :
                fn_in = ParserInput(d, plain, d_is_capacity)
    /\ fn_out = <<>>

FnFrame ==
    UNCHANGED <<pc, nodes, view_state, elapsed, rows_per_page,
                frame, terminal_state, exit_status, dispatched, fn_in>>

\* extract_gpu_info(&node)
ApplyExtractGpuInfo ==
    /\ pc = "fn" /\ fn_out = <<>>
    /\ fn_out' = [fn |-> "extract_gpu_info",
                  value |-> extract_gpu_info(FnNode(fn_in))]
    /\ FnFrame

\* is_node_fully_allocated(&node, gpu_only_mode)
ApplyIsNodeFullyAllocated ==
    /\ pc = "fn" /\ fn_out = <<>>
    /\ fn_out' = [fn |-> "is_node_fully_allocated",
                  value |-> is_node_fully_allocated(FnNode(fn_in), fn_in.gpu_only)]
    /\ FnFrame

FnNext ==
    \/ ApplyExtractGpuInfo
    \/ ApplyIsNodeFullyAllocated

SpecFn == FnInit /\ [][FnNext]_vars

(***************************************************************************)
(* Properties.                                                             *)
(***************************************************************************)
\* max(0, a - b) on the integers
Max0Diff(a, b) == IF a - b > 0 THEN a - b ELSE 0

\* the number of rows of the view: the length of the row list the draw
\* closure builds from the snapshot and the three flags
ViewRowCount == Len(table_rows)

\* C1: whenever a frame is about to be drawn or has just been drawn, the
\* scroll offset it is paginated with lies between 0 and
\* max(0, totalRows - viewportRows), totalRows being the length of the row
\* list built from the current snapshot and flags.
C1_OffsetWithinView ==
    pc \in {"draw", "poll"} =>
        /\ 0 <= scroll
        /\ scroll <= Max0Diff(ViewRowCount, rows_per_page)

\* a frame was drawn at a positive offset equal to the bound, while the
\* hide-filter leaves fewer rows than the snapshot has nodes
C1_Witness ==
    /\ pc = "poll" /\ exit_status = "running"
    /\ hide_no_free_gpus /\ ~group_by_partitions
    /\ ViewRowCount < Len(nodes)
    /\ scroll > 0
    /\ scroll = Max0Diff(ViewRowCount, rows_per_page)

\* C2: right after the end key was dispatched, the scroll offset equals
\* max(0, totalRows - viewportRows) for the row count of the current view.
C2_EndSetsMaxScroll ==
    (pc = "refresh" /\ event = "end") =>
        scroll = Max0Diff(ViewRowCount, rows_per_page)

\* C3: right after a down/'j' or page-down key was dispatched, the scroll
\* offset does not exceed max(0, totalRows - viewportRows) for the row count
\* of the current view.
C3_DownWithinMaxScroll ==
    (pc = "refresh" /\ event \in {"down", "pagedown"}) =>
        scroll <= Max0Diff(ViewRowCount, rows_per_page)

\* C4: right after 'f' (or 's') was dispatched the scroll offset is 0, the
\* hide-filter (or grouping) flag is the negation of what it was, and the
\* other two flags are what they were.
C4_ToggleResetsScroll ==
    /\ (pc = "refresh" /\ event = "f") =>
            /\ scroll = 0
            /\ hide_no_free_gpus = ~before[3]
            /\ gpu_only_mode = before[2]
            /\ group_by_partitions = before[4]
    /\ (pc = "refresh" /\ event = "s") =>
            /\ scroll = 0
            /\ group_by_partitions = ~before[4]
            /\ gpu_only_mode = before[2]
            /\ hide_no_free_gpus = before[3]

\* the grouping was toggled while the offset was positive and the
\* hide-filter on
C4_Witness ==
    /\ pc = "refresh" /\ event = "s"
    /\ before[1] > 0 /\ before[3]
    /\ scroll = 0

\* C5: the program never aborts on a subtraction, and the free GPU and free
\* CPU values of every node row that was built are max(0, total - allocated).
C5_FreeSaturates ==
    /\ exit_status # "panic"
    /\ (pc = "poll" =>
          \A i \in 1..Len(table_rows) :
              table_rows[i].kind = "node" =>
                 /\ table_rows[i].free_gpus =
                       U32(Max0Diff(table_rows[i].total_gpus,
                                    table_rows[i].allocated_gpus))
                 /\ table_rows[i].free_cpus =
                       U32(Max0Diff(table_rows[i].cpus, table_rows[i].alloc_cpus)))

\* the positions of main at which raw mode and the alternate screen have
\* both been entered
AfterAcquire == {"terminal", "size", "draw", "poll", "refresh",
                 "disable_raw", "leave_alt", "show_cursor", "done"}

\* C6: when the process has ended after raw mode and the alternate screen
\* were entered, raw mode is off and the alternate screen has been left.
C6_TerminalRestored ==
    (exit_status # "running" /\ pc \in AfterAcquire) =>
        (~raw_mode /\ ~alt_screen)

\* C7: the process never ends at the periodic fetch (a failed periodic fetch
\* keeps the snapshot and the loop goes on).
C7_RefreshFailureTolerated ==
    pc = "refresh" => exit_status = "running"

\* the count a descriptor stands for: the sum, over its entries of at least
\* three fields whose third field is a count, of that count
RECURSIVE EntriesCount(_)
EntriesCount(entries) ==
    IF entries = <<>> THEN 0
    ELSE LET e == Head(entries)
         IN  (IF Len(e) >= 3 /\ e[3].count # None THEN e[3].count[1] ELSE 0)
             + EntriesCount(Tail(entries))

DescriptorCount(d) == IF d = None THEN 0 ELSE EntriesCount(d[1])

C9_FullyAllocated ==
    (fn_out # <<>> /\ fn_out.fn = "is_node_fully_allocated") =>
        LET totalGPU == DescriptorCount(fn_in.gres)
            allocatedGPU == DescriptorCount(fn_in.gres_used)
        IN  fn_out.value =
                IF fn_in.gpu_only /\ totalGPU > 0
                THEN allocatedGPU = totalGPU
                ELSE /\ (totalGPU = 0 \/ allocatedGPU = totalGPU)
                     /\ fn_in.alloc_cpus = fn_in.cpus

\* gpu-only mode, 8 of 8 GPUs and 0 of 16 CPUs allocated: fully allocated
C9_Witness ==
    /\ fn_out # <<>> /\ fn_out.fn = "is_node_fully_allocated"
    /\ fn_in.gpu_only
    /\ DescriptorCount(fn_in.gres) = 8
    /\ DescriptorCount(fn_in.gres_used) = 8
    /\ fn_in.cpus = 16 /\ fn_in.alloc_cpus = 0
    /\ fn_out.value = TRUE

\* a node has free capacity under the mode, free being max(0, total - allocated)
HasFreeCapacity(node, gpu_only) ==
    LET totalGPU == extract_gpu_info(node)[2]
        freeGPU == Max0Diff(totalGPU, extract_gpu_info(node)[1])
        freeCPU == Max0Diff(node.cpus, node.alloc_cpus)
    IN  IF gpu_only
        THEN IF totalGPU > 0 THEN freeGPU > 0 ELSE freeCPU > 0
        ELSE freeGPU > 0 \/ freeCPU > 0

\* C10: once the view is built, the filtered node list is the snapshot when
\* the hide-filter is off, and otherwise the snapshot's nodes that have free
\* capacity under the mode, in snapshot order.
C10_FilterKeepsFree ==
    pc \in {"draw", "poll"} =>
        filtered_nodes =
            IF hide_no_free_gpus
            THEN LET keep(node) == HasFreeCapacity(node, gpu_only_mode)
                 IN  SelectSeq(nodes, keep)
            ELSE nodes


\* the pairs <<i, k>> such that entry k of the partition list of node i of
\* fs is the label p
Memberships(fs, p) ==
    UNION {{<<i, k>> : k \in {k \in 1..Len(fs[i].partitions) :
                                 fs[i].partitions[k] = p}} :
           i \in 1..Len(fs)}

\* the labels the partition lists of the nodes of fs hold
LabelsOf(fs) ==
    UNION {{fs[i].partitions[k] : k \in 1..Len(fs[i].partitions)} :
           i \in 1..Len(fs)}

\* for every row of a grouped view, the label of the header it stands under
\* (a header stands under itself)
RECURSIVE BucketLabels(_, _)
BucketLabels(rows, label) ==
    IF rows = <<>> THEN <<>>
    ELSE LET here == IF Head(rows).kind = "header"
                     THEN Head(rows).partition ELSE label
         IN  <<here>> \o BucketLabels(Tail(rows), here)

\* C11: once the view is built with grouping on, the rows under the header
\* of a label are, node by node, as many as the entries of the filtered
\* nodes' partition lists that are that label (an entry listed twice counts
\* twice, an empty list counts nothing), every label that occurs has exactly
\* one header and no other header exists, and total_rows is the sum over the
\* buckets of members + 1; with grouping off the view has one row per
\* filtered node.
C11_GroupingFansOut ==
    pc \in {"draw", "poll"} =>
        LET fs == filtered_nodes
            rows == table_rows
            labels == LabelsOf(fs)
            under == BucketLabels(rows, <<>>)
            names == {fs[i].name : i \in 1..Len(fs)}
        IN  IF group_by_partitions
            THEN /\ \A p \in labels :
                        /\ Cardinality({h \in 1..Len(rows) :
                                /\ rows[h].kind = "header"
                                /\ rows[h].partition = p}) = 1
                        /\ \A n \in names :
                              Cardinality({i \in 1..Len(rows) :
                                              /\ rows[i].kind = "node"
                                              /\ under[i] = p
                                              /\ rows[i].name = n})
                                = Cardinality({m \in Memberships(fs, p) :
                                                  fs[m[1]].name = n})
                 /\ \A h \in 1..Len(rows) :
                        rows[h].kind = "header" => rows[h].partition \in labels
                 /\ total_rows = Len(rows)
                 /\ total_rows = Cardinality(labels)
                        + Cardinality(UNION {Memberships(fs, p) : p \in labels})
            ELSE /\ Len(rows) = Len(fs)
                 /\ total_rows = Len(fs)
                 /\ \A i \in 1..Len(rows) :
                        rows[i].kind = "node" /\ rows[i].name = fs[i].name

\* a grouped view was drawn of a node that lists the label "b" twice and a
\* node with no partition: one header and two rows
C11_Witness ==
    /\ pc = "poll" /\ group_by_partitions
    /\ \E i \in 1..Len(filtered_nodes) : filtered_nodes[i].partitions = <<>>
    /\ \E i \in 1..Len(filtered_nodes) :
          filtered_nodes[i].partitions = << <<"b">>, <<"b">> >>
    /\ Len(table_rows) = 3
    /\ total_rows = 3

\* the place of a partition label of the pool in lexicographic order:
\* "a" < "ab" < "b" < "c"
LabelRank(label) ==
    CASE label = <<"a">> -> 1
      [] label = <<"a", "b">> -> 2
      [] label = <<"b">> -> 3
      [] label = <<"c">> -> 4

\* the members the bucket of the label p has when the nodes of fs are taken
\* in their order, each once per entry of its partition list that is p
RECURSIVE MembersInOrder(_, _)
MembersInOrder(fs, p) ==
    IF fs = <<>> THEN <<>>
    ELSE [k \in 1..Cardinality({k \in 1..Len(Head(fs).partitions) :
                                   Head(fs).partitions[k] = p}) |-> Head(fs)]
         \o MembersInOrder(Tail(fs), p)

\* the node rows of a grouped view that stand under the header of p, in the
\* order of the view; under is BucketLabels of the view
RECURSIVE RowsUnder(_, _, _)
RowsUnder(rows, under, p) ==
    IF rows = <<>> THEN <<>>
    ELSE (IF Head(rows).kind = "node" /\ Head(under) = p
          THEN <<Head(rows)>> ELSE <<>>)
         \o RowsUnder(Tail(rows), Tail(under), p)

\* C12: once the view is built with grouping on, every order in which the
\* map can hand over its buckets gives the same row sequence, the one of the
\* view; its headers are in strictly ascending lexicographic order of their
\* labels, one header per label that occurs, and the rows under a header are
\* the rows of the bucket's members in the order of the filtered nodes.
C12_GroupedViewDeterministic ==
    (pc \in {"draw", "poll"} /\ group_by_partitions) =>
        LET fs == filtered_nodes
            rows == table_rows
            under == BucketLabels(rows, <<>>)
            headers == {h \in 1..Len(rows) : rows[h].kind = "header"}
        IN  /\ \A partition_list \in partition_lists_of(fs) :
                   table_rows_of(fs, Some(partition_list), gpu_only_mode) = rows
            /\ \A h1, h2 \in headers :
                   h1 < h2 => LabelRank(rows[h1].partition)
                                < LabelRank(rows[h2].partition)
            /\ {rows[h].partition : h \in headers} = LabelsOf(fs)
            /\ \A p \in LabelsOf(fs) :
                   LET members == MembersInOrder(fs, p)
                   IN  RowsUnder(rows, under, p)
                         = [i \in 1..Len(members) |->
                               node_row(members[i], gpu_only_mode, <<>>)]

\* a grouped view was drawn from the snapshot (gpufull, free): the map can
\* hand over its two buckets in two orders, and the bucket "b" holds
\* gpufull twice, then free
C12_Witness ==
    /\ pc = "poll" /\ group_by_partitions
    /\ Cardinality(into_iter(partition_map_of(<<>>, filtered_nodes))) = 2
    /\ LET under == BucketLabels(table_rows, <<>>)
           b_rows == RowsUnder(table_rows, under, <<"b">>)
       IN  /\ Len(b_rows) = 3
           /\ b_rows[1].name = "gpufull"
           /\ b_rows[2].name = "gpufull"
           /\ b_rows[3].name = "free"
    /\ table_rows[1] = header_row(<<"a">>)

\* C13: a row of the frame just drawn has the emphasis it has in the frame
\* of the same row list at every other offset at which it is visible (the
\* offsets up to the node count can all be set with the keys).
C13_StripingStable ==
    pc = "poll" =>
        \A offset \in 0..min(max_scroll, Len(nodes)) :
            LET other == displayed_rows_of(table_rows, offset, rows_per_page)
            IN  \A k \in DOMAIN frame, j \in DOMAIN other :
                    other[j].index = frame[k].index => other[j].bg = frame[k].bg

\* the keys of lines 345-364
ScrollKeys == {"up", "down", "pageup", "pagedown", "home", "end"}

\* C14: an iteration dispatches one event at most (an event is on record
\* only between its dispatch and the end of the iteration), and right after
\* the dispatch: the snapshot is what it was; after 'c' the gpu-only flag is
\* negated and the offset and the other two flags are what they were; after
\* a scroll key the three flags are what they were; after any other key, an
\* event that is no key, or no event, ViewState is what it was.
C14_DispatchFrame ==
    /\ (pc \in {"load", "raw", "alt", "terminal", "size", "draw", "poll"})
            => event \notin Events
    /\ (pc = "refresh") =>
            /\ event \in Events
            /\ nodes = before[5]
            /\ (event = "c") =>
                    /\ gpu_only_mode = ~before[2]
                    /\ scroll = before[1]
                    /\ hide_no_free_gpus = before[3]
                    /\ group_by_partitions = before[4]
            /\ (event \in ScrollKeys) =>
                    /\ gpu_only_mode = before[2]
                    /\ hide_no_free_gpus = before[3]
                    /\ group_by_partitions = before[4]
            /\ (event \in {"other", "timeout"}) =>
                    view_state = <<before[1], before[2], before[3], before[4]>>

\* 'c' was dispatched at a positive offset with the hide-filter on: the
\* offset stayed, the mode changed
C14_Witness ==
    /\ pc = "refresh" /\ event = "c"
    /\ before[1] > 0 /\ before[3]
    /\ scroll = before[1]
    /\ gpu_only_mode = ~before[2]
    /\ Len(nodes) = 2

\* the positions of main after the loop
QuitPath == {"disable_raw", "leave_alt", "show_cursor", "done"}

\* the process has ended, or 'q' was dispatched
Ended == exit_status # "running" \/ pc \in QuitPath

\* C15: at step 6 of an iteration a fetch is performed exactly when 5 s or
\* more have elapsed since the timestamp (it then replaces the snapshot and
\* renews the timestamp, or returns an error); the snapshot changes and the
\* timestamp is renewed by a fetch only, so a periodic fetch comes 5 s or
\* more after the fetch before it; and while the loop runs a periodic fetch
\* eventually happens, unless the process ends or 'q' is dispatched first.
C15_PeriodicRefresh ==
    /\ [][(pc = "refresh" /\ exit_status = "running") =>
             IF elapsed >= refresh_interval
             THEN \/ exit_status' = "err"
                  \/ event' = "fetched" /\ elapsed' = 0 /\ pc' = "size"
             ELSE /\ event' # "fetched"
                  /\ nodes' = nodes
                  /\ elapsed' = elapsed
                  /\ exit_status' = "running"]_vars
    /\ [][(event' = "fetched" /\ event # "fetched") =>
             (pc = "refresh" /\ elapsed >= refresh_interval)]_vars
    /\ [][elapsed' < elapsed => event' = "fetched"]_vars
    /\ [][nodes' # nodes => (pc = "load" \/ event' = "fetched")]_vars
    /\ [][elapsed' > elapsed => pc = "poll"]_vars
    /\ [](  (pc \in {"size", "draw", "poll", "refresh"} /\ exit_status = "running")
          => <>(event = "fetched" \/ Ended))

\* a periodic fetch has just replaced the snapshot and renewed the
\* timestamp, in a run in which the offset had been moved
C15_Witness ==
    /\ pc = "size" /\ exit_status = "running"
    /\ event = "fetched"
    /\ elapsed = 0
    /\ nodes = <<NodeGpuOver>>
    /\ scroll = 1

C17_StartupFetchFatal ==
    /\ (pc = "load") =>
            /\ ~raw_mode /\ ~alt_screen
            /\ frame = <<>> /\ event = "none"
            /\ nodes = <<>>
            /\ exit_status \in {"running", "err"}
    /\ (pc \in {"load", "raw"} /\ exit_status # "running") =>
            /\ exit_status = "err"
            /\ ~raw_mode /\ ~alt_screen

\* the fetch of line 111 has failed
C17_Witness ==
    /\ pc = "load" /\ exit_status = "err"
    /\ ~raw_mode /\ ~alt_screen
    /\ frame = <<>>

\* C18: right after up/'k' was dispatched the offset is max(0, offset - 1),
\* after page-up max(0, offset - viewportRows), after home 0, offset being
\* what the dispatch found; in all three cases it is neither negative nor
\* larger than it was.
C18_UpSaturatesAtZero ==
    (pc = "refresh") =>
        /\ (event = "up") => scroll = Max0Diff(before[1], 1)
        /\ (event = "pageup") => scroll = Max0Diff(before[1], rows_per_page)
        /\ (event = "home") => scroll = 0
        /\ (event \in {"up", "pageup", "home"}) =>
                (0 <= scroll /\ scroll <= before[1])

\* page-up was dispatched at offset 1 with a viewport of 2 rows: the offset
\* is 0, not -1
C18_Witness ==
    /\ pc = "refresh" /\ event = "pageup"
    /\ before[1] = 1 /\ rows_per_page = 2
    /\ scroll = 0

\* C19: right after down/'j' or page-down was dispatched, the offset is not
\* below the offset the dispatch found, which is the clamped offset of the
\* frame drawn before it.
C19_DownNeverDecreases ==
    (pc = "refresh" /\ event \in {"down", "pagedown"}) => scroll >= before[1]

\* C20: the offset max(0, totalRows - viewportRows) can be reached with the
\* keys: when down/'j' leaves the offset where the frame had it, the frame
\* was already at that offset, and after end the next frame of the same
\* snapshot, flags and viewport is drawn at that offset.
C20_LastRowReachable ==
    (pc = "refresh") =>
        LET maxScroll == Max0Diff(ViewRowCount, rows_per_page)
        IN  /\ (event = "down" /\ scroll = before[1]) => before[1] = maxScroll
            /\ (event = "end") =>
                    clamped_scroll(scroll, total_rows, rows_per_page) = maxScroll

====
